---------------------------- MODULE Spec2Model ----------------------------
(***************************************************************************)
(* One run of kmeans.py: main() reads a table {country -> (birthrate,      *)
(* life expectancy)} and a cluster count, kmeans_algorithm() samples the   *)
(* seeds, assigns every point to its closest seed, plots the clusters and  *)
(* prints, per cluster, the country list and the mean of each coordinate.  *)
(*                                                                         *)
(* The dictionary `read` is a sequence of points: its keys (the country    *)
(* names, distinct by construction of a dict) are the positions 1..n in    *)
(* insertion order, its values are the points.  Python's 0-based cluster   *)
(* indices 0..k-1 are the 1-based indices 1..k here.                       *)
(***************************************************************************)
EXTENDS Integers, Sequences, FiniteSets, TLC

(* ------------------------------ bounds --------------------------------- *)
\* the points of the tables have natural coordinates with x + y <= GridMax
GridMax == 1

\* the exhaustively enumerated tables have at most MaxN countries
MaxN == 3

\* the requested cluster count ranges over -KSlack .. n + KSlack
KSlack == 1

\* np.sqrt is modelled in fixed point with SqrtScale units per 1.0
SqrtScale == 1000

(* ------------------------- program constants --------------------------- *)
\* len(cmaps): the palette of kmeans_algorithm has ten colours.  Only its
\* length takes part in the control flow; the random permutation of the
\* colour names changes the printed names only and is not represented.
PaletteSize == 10

(* ------------------------------ inputs --------------------------------- *)
Grid == {p \in (0..GridMax) \X (0..GridMax) : p[1] + p[2] <= GridMax}

Range(s) == {s[j] : j \in 1..Len(s)}

\* every table of at most MaxN countries over the grid (duplicates of
\* coordinates between countries included)
SmallTables == UNION {[1..n -> Grid] : n \in 0..MaxN}

\* tables with more countries than the palette has colours; all countries
\* of such a table share one point, which keeps the set of sample outcomes
\* small
LongTables == {[c \in 1..(PaletteSize + 1) |-> p] : p \in Grid}

Tables == SmallTables \cup LongTables

VARIABLES
    read,            \* main: the dictionary returned by read_csv
    number_cluster,  \* main: int(input(...))
    pc,              \* position of the run
    err,             \* the exception that ended the run, "" if none
    samples,         \* init_centroids: the sampled seeds
    centroids,       \* init_centroids: the clusters, sequences of points
    members,         \* for each cluster, the positions in datapoints of the
                     \* tuple objects appended to it (object identity)
    i,               \* init_centroids: position of the loop over datapoints
    plotted,         \* kmeans_algorithm: cluster_plot has returned
    output           \* what the reporting loop has printed, per cluster

vars == <<read, number_cluster, pc, err, samples, centroids, members, i,
          plotted, output>>

\* main: datapoints = [point for point in read.values()]
datapoints == read

(* ----------------------------- distance -------------------------------- *)
\* largest radicand the model can produce
MaxRadicand == 2 * GridMax * GridMax

\* np.sqrt on the radicands of the model: the root rounded (down) to the
\* precision of the representation, SqrtScale units per 1.0
SqrtTab ==
    [e \in 0..MaxRadicand |->
        CHOOSE q \in 0..(SqrtScale * (2 * GridMax) + 1) :
            /\ q * q <= e * SqrtScale * SqrtScale
            /\ (q + 1) * (q + 1) > e * SqrtScale * SqrtScale]

np_sqrt(e) == SqrtTab[e]

\* a plausible slip: the y term is left out of the distance
euclidean_distance_xonly(x1, x2, y1, y2) ==
    np_sqrt((x2 - x1) * (x2 - x1))

euclidean_distance(x1, x2, y1, y2) ==
    LET euclidean == (x2 - x1) * (x2 - x1) + (y2 - y1) * (y2 - y1)
        eu_sq == np_sqrt(euclidean)
    IN  eu_sq

\* np.amin of a non-empty list
np_amin(d) == CHOOSE m \in Range(d) : \A j \in 1..Len(d) : m <= d[j]

\* np.where(d == m)[0]: the indices holding m, ascending
np_where(d, m) == SelectSeq([j \in 1..Len(d) |-> j], LAMBDA j : d[j] = m)

\* the distances list built by the loop of closest_centroid
distances_of(cs, datapoint) ==
    [j \in 1..Len(cs) |->
        euclidean_distance(cs[j][1], datapoint[1], cs[j][2], datapoint[2])]

\* a plausible slip: the last index holding the minimum, min_index[0][-1]
closest_centroid_last(cs, datapoint) ==
    LET distances == distances_of(cs, datapoint)
        min_index == np_where(distances, np_amin(distances))
    IN  min_index[Len(min_index)]

\* a plausible slip: np.amax in place of np.amin
closest_centroid_amax(cs, datapoint) ==
    LET distances == distances_of(cs, datapoint)
        max_distance == CHOOSE m \in Range(distances) :
                            \A j \in 1..Len(distances) : m >= distances[j]
    IN  np_where(distances, max_distance)[1]

\* closest_centroid for a non-empty list of centroids (np.amin raises on an
\* empty list; AssignPoint models that branch)
closest_centroid(cs, datapoint) ==
    LET distances == distances_of(cs, datapoint)
        min_distance == np_amin(distances)
        min_index == np_where(distances, min_distance)
    IN  min_index[1]

(* ------------------------------ seeding -------------------------------- *)
Count(s, v) == Cardinality({j \in 1..Len(s) : s[j] = v})

\* random.sample(population, k) for 0 <= k <= len(population): the values
\* at k distinct positions, in any order.  A sequence of values is such an
\* outcome exactly when it uses no value more often than the population
\* holds it.
random_sample(population, k) ==
    {s \in [1..k -> Range(population)] :
        \A v \in Range(population) : Count(s, v) <= Count(population, v)}

(* ----------------------------- assignment ------------------------------ *)
\* a plausible slip: the cluster is assigned instead of appended to
append_to_overwrite(lists, idx, x) == [lists EXCEPT ![idx] = <<x>>]

\* a plausible slip: insert(0, point) in place of append(point)
append_to_front(lists, idx, x) == [lists EXCEPT ![idx] = <<x>> \o @]

\* centroids[idx].append(point)
append_to(lists, idx, x) == [lists EXCEPT ![idx] = Append(@, x)]

(* ------------------------------ reporting ------------------------------ *)
\* a plausible slip: the lookup goes through an inverted {point: country}
\* mapping, which keeps one country per point
get_country_inverted(cluster, data) ==
    SelectSeq([c \in 1..Len(data) |-> c],
              LAMBDA c : /\ data[c] \in Range(cluster)
                         /\ \A b \in (c + 1)..Len(data) : data[b] # data[c])

\* get_country: the countries, in dictionary order, whose point is `in`
\* the cluster (value equality); the function prints the list and its length
get_country(cluster, data) ==
    SelectSeq([c \in 1..Len(data) |-> c],
              LAMBDA c : data[c] \in Range(cluster))

RECURSIVE SumSeq(_)
SumSeq(s) == IF s = <<>> THEN 0 ELSE Head(s) + SumSeq(Tail(s))

\* np.round(np.mean(x), decimals=2) in hundredths (round half to even);
\* np.mean of an empty list is nan, with a warning and no exception
np_round_mean(x) ==
    IF x = <<>> THEN "nan"
    ELSE LET num == 100 * SumSeq(x)
             q == num \div Len(x)
             rem == num % Len(x)
         IN  IF 2 * rem < Len(x) THEN q
             ELSE IF 2 * rem > Len(x) THEN q + 1
             ELSE IF q % 2 = 0 THEN q ELSE q + 1

\* mean_data: the two printed means
mean_data(cluster) ==
    LET x == [j \in 1..Len(cluster) |-> cluster[j][1]]
        y == [j \in 1..Len(cluster) |-> cluster[j][2]]
    IN  [average_birthrate |-> np_round_mean(x),
         average_life_expectancy |-> np_round_mean(y)]

(* ------------------------------- the run ------------------------------- *)
Init ==
    /\ read \in Tables
    /\ number_cluster \in (0 - KSlack)..(Len(read) + KSlack)
    /\ pc = "Uninitialized"
    /\ err = ""
    /\ samples = <<>>
    /\ centroids = <<>>
    /\ members = <<>>
    /\ i = 1
    /\ plotted = FALSE
    /\ output = <<>>

\* init_centroids, line 121-124: random.sample raises ValueError when the
\* sample is larger than the population or negative; otherwise the seeds
\* are drawn and one empty cluster per seed is created
Sample ==
    /\ pc = "Uninitialized"
    /\ IF number_cluster < 0 \/ number_cluster > Len(datapoints)
       THEN /\ pc' = "Error"
            /\ err' = "ValueError: random.sample"
            /\ UNCHANGED <<samples, centroids, members>>
       ELSE /\ \E s \in random_sample(datapoints, number_cluster) :
                    samples' = s
            /\ centroids' = [cp \in 1..number_cluster |-> <<>>]
            /\ members' = [cp \in 1..number_cluster |-> <<>>]
            /\ pc' = "Seeded"
            /\ err' = err
    /\ UNCHANGED <<read, number_cluster, i, plotted, output>>

\* init_centroids, line 127-128: one iteration of the loop over datapoints;
\* with no seed, np.amin of the empty distances list raises ValueError
AssignPoint ==
    /\ pc = "Seeded"
    /\ i <= Len(datapoints)
    /\ IF samples = <<>>
       THEN /\ pc' = "Error"
            /\ err' = "ValueError: np.amin"
            /\ UNCHANGED <<centroids, members, i>>
       ELSE LET point == datapoints[i]
                idx == closest_centroid(samples, point)
            IN  /\ centroids' = append_to(centroids, idx, point)
                /\ members' = append_to(members, idx, i)
                /\ i' = i + 1
                /\ UNCHANGED <<pc, err>>
    /\ UNCHANGED <<read, number_cluster, samples, plotted, output>>

\* init_centroids, line 131: the loop is over, the clusters are returned
ReturnCentroids ==
    /\ pc = "Seeded"
    /\ i > Len(datapoints)
    /\ pc' = "Assigned"
    /\ UNCHANGED <<read, number_cluster, err, samples, centroids, members, i,
                   plotted, output>>

\* cluster_plot: cmaps[index] raises IndexError at the first cluster past
\* the palette; the plot itself leaves the state of the run alone
ClusterPlot ==
    /\ pc = "Assigned"
    /\ ~plotted
    /\ IF Len(centroids) > PaletteSize
       THEN /\ pc' = "Error"
            /\ err' = "IndexError: cmaps"
            /\ UNCHANGED plotted
       ELSE /\ plotted' = TRUE
            /\ UNCHANGED <<pc, err>>
    /\ UNCHANGED <<read, number_cluster, samples, centroids, members, i,
                   output>>

\* kmeans_algorithm, line 232-235: one iteration of the reporting loop
ReportCluster ==
    /\ pc = "Assigned"
    /\ plotted
    /\ Len(output) < Len(centroids)
    /\ LET cluster == centroids[Len(output) + 1]
           country_list == get_country(cluster, read)
       IN  output' = Append(output,
                        [country_list |-> country_list,
                         number |-> Len(country_list),
                         mean |-> mean_data(cluster)])
    /\ UNCHANGED <<read, number_cluster, pc, err, samples, centroids, members,
                   i, plotted>>

\* kmeans_algorithm returns after the last cluster
ReturnReport ==
    /\ pc = "Assigned"
    /\ plotted
    /\ Len(output) = Len(centroids)
    /\ pc' = "Reported"
    /\ UNCHANGED <<read, number_cluster, err, samples, centroids, members, i,
                   plotted, output>>

Next ==
    \/ Sample
    \/ AssignPoint
    \/ ReturnCentroids
    \/ ClusterPlot
    \/ ReportCluster
    \/ ReturnReport

Spec == Init /\ [][Next]_vars

\* the program is one synchronous thread: a step that can be taken is taken
FairSpec == Spec /\ WF_vars(Next)

(* ------------------------- shared vocabulary --------------------------- *)
n == Len(datapoints)

\* the cluster counts the specification calls valid
ValidK == 1 <= number_cluster /\ number_cluster <= n

\* init_centroids has returned its clusters
Returned ==
    \/ pc \in {"Assigned", "Reported"}
    \/ pc = "Error" /\ err = "IndexError: cmaps"

\* the distance the program computes between seed j and the point at
\* position p of datapoints
SeedDistance(j, p) ==
    euclidean_distance(samples[j][1], datapoints[p][1],
                       samples[j][2], datapoints[p][2])

\* the seeds attaining the minimum distance to the point at position p
Nearest(p) ==
    {j \in 1..Len(samples) :
        \A l \in 1..Len(samples) : SeedDistance(j, p) <= SeedDistance(l, p)}

Lowest(S) == CHOOSE a \in S : \A b \in S : a <= b

\* the clusters holding position p
ClustersOf(p) == {c \in 1..Len(members) : p \in Range(members[c])}

RECURSIVE TotalLen(_)
TotalLen(lists) ==
    IF lists = <<>> THEN 0 ELSE Len(Head(lists)) + TotalLen(Tail(lists))

\* every cluster holds the points found at the positions recorded for it
PointsMatchPositions ==
    /\ Len(centroids) = Len(members)
    /\ \A c \in 1..Len(centroids) :
          /\ Len(centroids[c]) = Len(members[c])
          /\ \A m \in 1..Len(members[c]) :
                centroids[c][m] = datapoints[members[c][m]]

(* ------------------------------- claims -------------------------------- *)
\* C1 - partition completeness: for a valid k and any seed set, the clusters
\* returned by init_centroids hold every position of the dataset in exactly
\* one cluster, exactly once, and nothing else.
C1_PartitionComplete ==
    (Returned /\ ValidK) =>
        /\ PointsMatchPositions
        /\ \A p \in 1..n : Cardinality(ClustersOf(p)) = 1
        /\ \A c \in 1..Len(members) : Range(members[c]) \subseteq 1..n
        /\ TotalLen(members) = n

\* C1 witness: three countries have been split over two non-empty clusters
C1_Witness ==
    /\ Returned /\ ValidK
    /\ n = 3 /\ number_cluster = 2
    /\ centroids[1] # <<>> /\ centroids[2] # <<>>

\* C2 - nearest-seed assignment: exactly k clusters, indexed as the seeds,
\* and a point placed in cluster c is no farther from seed c than from any
\* other seed.
C2_NearestSeed ==
    (Returned /\ ValidK) =>
        /\ Len(centroids) = number_cluster
        /\ Len(samples) = number_cluster
        /\ \A c \in 1..Len(members) : \A m \in 1..Len(members[c]) :
              \A j \in 1..Len(samples) :
                  SeedDistance(c, members[c][m]) <= SeedDistance(j, members[c][m])

\* C2 witness: some point has been placed under a seed while another seed is
\* strictly farther from it
C2_Witness ==
    /\ Returned /\ ValidK
    /\ \E c \in 1..Len(members) : \E m \in 1..Len(members[c]) :
          \E j \in 1..Len(samples) :
              SeedDistance(c, members[c][m]) < SeedDistance(j, members[c][m])

\* C3 - tie-break: a point whose minimum distance is attained by several
\* seeds is placed in the cluster of the lowest index among them.
C3_TieBreakLowest ==
    \A c \in 1..Len(members) : \A m \in 1..Len(members[c]) :
        c = Lowest(Nearest(members[c][m]))

\* C3 witness: a point equidistant from two seeds of different coordinates,
\* both nearest, sits in the cluster of the lower index
C3_Witness ==
    /\ Returned
    /\ \E p \in 1..n : \E a, b \in Nearest(p) :
          /\ a < b
          /\ samples[a] # samples[b]
          /\ p \in Range(members[a])

\* C4 - invalid k is a reported error: once the seeding step has run with
\* k < 1 or k > n, the run has ended with InvalidClusterCount.
C4_InvalidKReported ==
    (pc # "Uninitialized" /\ ~ValidK) =>
        (pc = "Error" /\ err = "InvalidClusterCount")

\* C5 - empty-cluster detection: once the summary of a cluster without
\* points has been requested, the run has ended with EmptyClusterError.
C5_EmptyClusterRaises ==
    (\E idx \in 1..Len(output) : centroids[idx] = <<>>) =>
        (pc = "Error" /\ err = "EmptyClusterError")

\* C6 - order preservation: within every cluster the points stand in the
\* order of their positions in the dataset.
C6_OrderPreserved ==
    /\ PointsMatchPositions
    /\ \A c \in 1..Len(members) : \A a, b \in 1..Len(members[c]) :
          a < b => members[c][a] < members[c][b]

\* C6 witness: a returned cluster holds at least two points
C6_Witness ==
    /\ Returned
    /\ \E c \in 1..Len(members) : Len(members[c]) >= 2

\* C7 - boundary k = n: with k equal to the dataset size and no two points
\* sharing coordinates, every cluster is the singleton of its own seed.
C7_SingletonsAtKEqualsN ==
    (/\ Returned
     /\ number_cluster = n
     /\ \A a, b \in 1..n : a # b => datapoints[a] # datapoints[b])
        => \A c \in 1..Len(centroids) : centroids[c] = <<samples[c]>>

\* C7 witness: three distinct points, three clusters returned
C7_Witness ==
    /\ Returned
    /\ n = 3 /\ number_cluster = 3
    /\ \A a, b \in 1..n : a # b => datapoints[a] # datapoints[b]

\* the phases a run may move between: forward by one, or into an error
PhaseStep ==
    \/ pc = "Uninitialized" /\ pc' \in {"Seeded", "Error"}
    \/ pc = "Seeded" /\ pc' \in {"Assigned", "Error"}
    \/ pc = "Assigned" /\ pc' \in {"Reported", "Error"}

\* one step of a strictly linear run: phases only move forward, the seeds
\* are fixed once drawn, a step of the Seeded phase assigns the one next
\* point, and the clusters are fixed once returned
LinearStep ==
    /\ pc' # pc => PhaseStep
    /\ pc # "Uninitialized" => samples' = samples
    /\ pc # "Seeded" /\ pc # "Uninitialized" => centroids' = centroids
    /\ pc = "Seeded" /\ centroids' # centroids =>
          /\ TotalLen(centroids') = TotalLen(centroids) + 1
          /\ i' = i + 1
          /\ ClustersOf(i) = {}

\* the safety half of C8, on its own
C8_LinearPhases == [][LinearStep]_vars

\* C8 - strictly linear run: the phases are passed in the order
\* Uninitialized, Seeded, Assigned, Reported, the seeds are drawn once, every
\* point is assigned once, and every run with a valid k reaches Reported.
C8_LinearAndCompletes ==
    /\ [][LinearStep]_vars
    /\ (ValidK ~> pc = "Reported")

\* the seed of the lowest index with the coordinates of seed c
FirstSameSeed(c) == Lowest({j \in 1..Len(samples) : samples[j] = samples[c]})

\* C9 as stated - seeds are clustered under themselves: every seed is a
\* member of the cluster of its own index, so no cluster is empty.
C9_EverySeedInOwnCluster ==
    (Returned /\ ValidK) =>
        \A c \in 1..Len(samples) : samples[c] \in Range(centroids[c])

\* C9 amended - every seed is a member of the cluster of the lowest-index
\* seed with its coordinates; a cluster is empty exactly when its seed has the
\* coordinates of a seed with a lower index.
C9_SeedInFirstSameCluster ==
    (Returned /\ ValidK) =>
        \A c \in 1..Len(samples) :
            /\ samples[c] \in Range(centroids[FirstSameSeed(c)])
            /\ (centroids[c] = <<>>) <=> (FirstSameSeed(c) # c)

\* C9 witness: two seeds share coordinates and the later one's cluster is
\* empty, while a seed of other coordinates holds its own cluster
C9_Witness ==
    /\ Returned /\ ValidK
    /\ \E a, b, c \in 1..Len(samples) :
          /\ a < b
          /\ samples[a] = samples[b]
          /\ centroids[b] = <<>>
          /\ samples[c] # samples[a]
          /\ samples[c] \in Range(centroids[c])

\* the clusters under which country c has been listed
ListedUnder(c) ==
    {idx \in 1..Len(output) : c \in Range(output[idx].country_list)}

RECURSIVE TotalNumber(_)
TotalNumber(out) ==
    IF out = <<>> THEN 0 ELSE Head(out).number + TotalNumber(Tail(out))

\* C10 - report consistency: the number printed for a cluster is the number
\* of points in that cluster, and at the end of the report every country has
\* been listed under exactly one cluster, so the numbers sum to the number of
\* countries - also when countries share coordinates.
C10_ReportConsistent ==
    /\ \A idx \in 1..Len(output) :
          output[idx].number = Len(centroids[idx])
    /\ pc = "Reported" =>
          /\ \A c \in 1..n : Cardinality(ListedUnder(c)) = 1
          /\ TotalNumber(output) = n

\* C10 witness: a finished report over two non-empty clusters of a table in
\* which two countries share coordinates
C10_Witness ==
    /\ pc = "Reported" /\ ValidK
    /\ \E a, b \in 1..n : a # b /\ datapoints[a] = datapoints[b]
    /\ \E a, b \in 1..Len(output) :
          a # b /\ output[a].number >= 1 /\ output[b].number >= 1

=============================================================================
